---- MODULE Spec2Model ----
(***************************************************************************)
(* The account ledger and payment-code engine of the e-banking server:     *)
(* the Express request handlers of the routes module (authenticate,        *)
(* deposit, withdraw-to-wallet, transfer, QR generate, QR scan) over the   *)
(* rows kept by DatabaseStorage.  Every `await` of a handler is a point    *)
(* where another request may run, so every storage call is one step and    *)
(* the synchronous code before it belongs to that step.                    *)
(* FraudDetectionService, which no handler calls, is modelled on its own   *)
(* (SpecRisk, and SpecRiskLoad with transactions committing beside it).    *)
(* SpecLive is Spec under a fair event loop; SpecReaper adds the reaper of *)
(* expired codes, SpecSession the logout route and an expiring session,    *)
(* SpecReview the administrators' review of fraud alerts.                  *)
(*                                                                         *)
(* Money: a decimal(15,2) column is held as its number of hundredths, a    *)
(* JavaScript number as its number of thousandths.  Request amounts are    *)
(* whole hundredths (the spec's minor units).                              *)
(* Time: one tick is 15 minutes.                                           *)
(***************************************************************************)
EXTENDS Integers, Sequences, FiniteSets, TLC

\* ---------------------------------------------------------------- bounds
NReq == 2
MaxTime == 2
MaxCodes == 1
MaxFaults == 1
\* How many transactions commit during one risk evaluation.
MaxCommits == 1
\* How many fraud alerts are inserted.
MaxAlerts == 2

\* ---------------------------------------------------------------- constants
\* Date.now() + 15 * 60 * 1000, in ticks of 15 minutes.
QrTtl == 1
\* Date.now() + 24 * 60 * 60 * 1000, in ticks of 15 minutes.
SessionTtl == 96

Reqs == 1..NReq
Users == 1..3

\* A decimal(15,2) value of n whole currency units (hundredths).
Dec(n) == n * 100
\* A JavaScript number of n whole currency units (thousandths).
Num(n) == n * 1000

\* parseFloat of a decimal(15,2) string.
parseFloat(d) == d * 10

\* Number.prototype.toFixed(2), and the rounding a decimal(15,2) column
\* applies to a number written to it: the nearest hundredth.
toFixed2(x) == IF x >= 0 THEN (x + 5) \div 10 ELSE -((5 - x) \div 10)

\* Amounts a client may send as `amount` (z.number(); 0 is not positive).
Amounts == {Num(0), Num(2000), Num(4000)}

\* The `amount` of a QR request body: absent, or a number (a number of
\* thousandths that is a whole hundredth, so never -1).
NoAmount == -1
\* Amounts a client may send to /api/qr/generate.
GenerateAmounts == {NoAmount, Num(500)}
\* Amounts a client may send to /api/qr/scan.
ScanAmounts == {NoAmount, Num(0), Num(600), Num(-600)}

AccountNumbers == {"12345678", "87654321", "45678912", "00000000"}
Tokens == {"tok1", "tok2", "tok3", "none"}

NoUser == [id |-> 0, balance |-> 0, walletBalance |-> 0]
NoQr == [id |-> 0, amount |-> NoAmount, merchantName |-> ""]
NoCode == 0
NoTime == -1

VARIABLES
    users,          \* users table: id -> row
    transactions,   \* transactions table, in insertion order
    qrPayments,     \* qr_payments table, in insertion order
    userSessions,   \* user_sessions table: set of rows
    now,            \* the clock
    req,            \* the in-flight and finished requests
    faults,         \* storage calls that have thrown
    fraudAlerts,    \* fraud_alerts table, in insertion order
    risk            \* an evaluation by FraudDetectionService

vars == <<users, transactions, qrPayments, userSessions, now, req, faults,
          fraudAlerts, risk>>

\* The state of the risk evaluation.
riskVars == <<fraudAlerts, risk>>

IdleReq ==
    [kind |-> "none", pc |-> "idle", token |-> "", sessUser |-> 0, user |-> NoUser,
     amount |-> 0, toUser |-> NoUser, code |-> NoCode, at |-> NoTime,
     qr |-> NoQr, seen |-> "none", override |-> NoAmount, pinOk |-> FALSE,
     to |-> "", alert |-> 0, status |-> "", res |-> "", did |-> {}]

\* No evaluation by FraudDetectionService is under way.
IdleRisk ==
    [pc |-> "idle", transaction |-> [id |-> 0, amount |-> 0, createdAt |-> 0],
     user |-> NoUser, table |-> <<>>, at |-> 0, patterns |-> <<>>, score |-> 0,
     recent |-> 0, velocity |-> 0, commits |-> 0]

\* The accounts: two active customers and one deactivated account.  No
\* handler changes accountNumber or isActive.
InitUsers ==
    [u \in Users |->
       CASE u = 1 -> [accountNumber |-> "12345678", balance |-> Dec(5000),
                      walletBalance |-> Dec(500), isActive |-> TRUE,
                      role |-> "customer"]
         [] u = 2 -> [accountNumber |-> "87654321", balance |-> Dec(3000),
                      walletBalance |-> Dec(1000), isActive |-> TRUE,
                      role |-> "customer"]
         [] u = 3 -> [accountNumber |-> "45678912", balance |-> Dec(3200),
                      walletBalance |-> Dec(320), isActive |-> FALSE,
                      role |-> "customer"]]

\* One session per account, created by a login at time 0.
InitSessions ==
    {[token |-> "tok1", userId |-> 1, expiresAt |-> SessionTtl],
     [token |-> "tok2", userId |-> 2, expiresAt |-> SessionTtl],
     [token |-> "tok3", userId |-> 3, expiresAt |-> SessionTtl]}

Init ==
    /\ users = InitUsers
    /\ transactions = <<>>
    /\ qrPayments = <<>>
    /\ userSessions = InitSessions
    /\ now = 0
    /\ req = [r \in Reqs |-> IdleReq]
    /\ faults = 0
    /\ fraudAlerts = <<>>
    /\ risk = IdleRisk

\* ---------------------------------------------------------------- storage
\* A lookup that does not look at expires_at.
getSessionByTokenAnyAge(token) == {s \in userSessions : s.token = token}

\* DatabaseStorage.getSessionByToken: the rows with that token whose
\* expiresAt >= new Date().
getSessionByToken(token) ==
    {s \in userSessions : s.token = token /\ s.expiresAt >= now}

\* DatabaseStorage.getUserByAccountNumber: the ids with that number.
getUserByAccountNumber(accountNumber) ==
    {u \in Users : users[u].accountNumber = accountNumber}

\* The row a handler holds after a select: a copy of the columns it uses.
UserRow(u) ==
    [id |-> u, balance |-> users[u].balance, walletBalance |-> users[u].walletBalance]

\* DatabaseStorage.updateUserBalance: set balance where id = userId.
updateUserBalance(userId, balance) ==
    [users EXCEPT ![userId].balance = balance]

\* DatabaseStorage.updateUserWalletBalance: set wallet_balance where id = userId.
updateUserWalletBalance(userId, walletBalance) ==
    [users EXCEPT ![userId].walletBalance = walletBalance]

\* An insert that takes the id of the newest row and replaces that row.
createTransactionOverLast(fromUserId, toUserId, toAccountNumber, amount, transactionType) ==
    LET n == IF transactions = <<>> THEN 1 ELSE Len(transactions) IN
    [i \in 1..n |->
       IF i < n THEN transactions[i]
       ELSE [id |-> n, fromUserId |-> fromUserId,
             toUserId |-> toUserId, toAccountNumber |-> toAccountNumber,
             amount |-> toFixed2(amount),
             transactionType |-> transactionType, status |-> "completed"]]

\* DatabaseStorage.createTransaction: insert one row; id is the serial.  An
\* absent user id is 0, an absent account number "".
createTransaction(fromUserId, toUserId, toAccountNumber, amount, transactionType) ==
    Append(transactions,
           [id |-> Len(transactions) + 1, fromUserId |-> fromUserId,
            toUserId |-> toUserId, toAccountNumber |-> toAccountNumber,
            amount |-> toFixed2(amount),
            transactionType |-> transactionType, status |-> "completed"])

\* ---------------------------------------------------------------- requests
\* A handler that records its reply and never sends it.
FinishNoReply(r, res) == [req[r] EXCEPT !.res = res]

\* The handler replies (res.json or res.status(...).json) and returns; what
\* it held of the rows it read is dropped.
Finish(r, res) ==
    [req[r] EXCEPT !.pc = "done", !.res = res, !.user = NoUser,
                   !.toUser = NoUser, !.qr = NoQr]

\* authenticate, first await: a request of some kind arrives with a bearer
\* token and the session is looked up.  Request slots are taken in order
\* (slot r only after slot r - 1): the slots are interchangeable.
Authenticate(r, kinds) ==
    /\ req[r].pc = "idle"
    /\ \A q \in Reqs : q < r => req[q].pc # "idle"
    /\ \E kind \in kinds, token \in Tokens :
         LET found == getSessionByToken(token) IN
         IF found = {}
         THEN req' = [req EXCEPT ![r] =
                        [Finish(r, "401 Invalid or expired token")
                           EXCEPT !.kind = kind, !.token = token]]
         ELSE \E s \in found :
                req' = [req EXCEPT ![r] =
                          [@ EXCEPT !.kind = kind, !.pc = "getUser",
                                    !.token = token, !.sessUser = s.userId]]
    /\ UNCHANGED riskVars
    /\ UNCHANGED <<users, transactions, qrPayments, userSessions, now, faults>>

\* authenticate, second await: storage.getUser; req.user is the row read here.
GetUser(r) ==
    /\ req[r].pc = "getUser"
    /\ LET u == req[r].sessUser IN
       IF u \notin Users \/ ~users[u].isActive
       THEN req' = [req EXCEPT ![r] = Finish(r, "401 User not found or inactive")]
       ELSE req' = [req EXCEPT ![r] = [@ EXCEPT !.pc = "handler", !.user = UserRow(u)]]
    /\ UNCHANGED riskVars
    /\ UNCHANGED <<users, transactions, qrPayments, userSessions, now, faults>>

\* transactionSchema: amount is z.number().positive().
ValidAmount(amount) == amount > 0

\* POST /api/transactions/deposit up to and including createTransaction.
Deposit(r) ==
    /\ req[r].kind = "deposit" /\ req[r].pc = "handler"
    /\ \E amount \in Amounts, isValidPin \in BOOLEAN :
         IF ~ValidAmount(amount)
         THEN /\ req' = [req EXCEPT ![r] = Finish(r, "400 Invalid input")]
              /\ UNCHANGED transactions
         ELSE IF ~isValidPin
         THEN /\ req' = [req EXCEPT ![r] = Finish(r, "401 Invalid PIN")]
              /\ UNCHANGED transactions
         ELSE /\ transactions' = createTransaction(0, req[r].user.id,
                                   users[req[r].user.id].accountNumber, amount, "deposit")
              /\ req' = [req EXCEPT ![r] =
                           [@ EXCEPT !.pc = "upd1", !.amount = amount,
                                     !.pinOk = isValidPin, !.did = {"tx"}]]
    /\ UNCHANGED riskVars
    /\ UNCHANGED <<users, qrPayments, userSessions, now, faults>>

\* newBalance of the deposit handler.
DepositNewBalance(user, amount) == toFixed2(parseFloat(user.balance) + amount)

\* POST /api/transactions/deposit: updateUserBalance and the reply.
DepositUpdate(r) ==
    /\ req[r].kind = "deposit" /\ req[r].pc = "upd1"
    /\ users' = updateUserBalance(req[r].user.id,
                                  DepositNewBalance(req[r].user, req[r].amount))
    /\ req' = [req EXCEPT ![r] =
                 [Finish(r, "200") EXCEPT !.did = @ \cup {"credit"}]]
    /\ UNCHANGED riskVars
    /\ UNCHANGED <<transactions, qrPayments, userSessions, now, faults>>

\* The balance check gone wrong: it refuses only an empty balance.
InsufficientOnlyWhenEmpty(current, amount) == current <= 0

\* `currentBalance < amount` of the withdraw, transfer and scan handlers.
Insufficient(current, amount) == current < amount

\* newBalance of the withdraw handler and fromNewBalance of the transfer handler.
DebitNewBalance(user, amount) == toFixed2(parseFloat(user.balance) - amount)

\* A wallet balance that the withdrawal does not reach.
WithdrawNewWalletBalanceKept(user, amount) == toFixed2(parseFloat(user.walletBalance))

\* newWalletBalance of the withdraw handler.
WithdrawNewWalletBalance(user, amount) == toFixed2(parseFloat(user.walletBalance) + amount)

\* POST /api/transactions/withdraw up to and including createTransaction.
Withdraw(r) ==
    /\ req[r].kind = "withdraw" /\ req[r].pc = "handler"
    /\ \E amount \in Amounts, isValidPin \in BOOLEAN :
         IF ~ValidAmount(amount)
         THEN /\ req' = [req EXCEPT ![r] = Finish(r, "400 Invalid input")]
              /\ UNCHANGED transactions
         ELSE IF ~isValidPin
         THEN /\ req' = [req EXCEPT ![r] = Finish(r, "401 Invalid PIN")]
              /\ UNCHANGED transactions
         ELSE IF Insufficient(parseFloat(req[r].user.balance), amount)
         THEN /\ req' = [req EXCEPT ![r] = Finish(r, "400 Insufficient balance")]
              /\ UNCHANGED transactions
         ELSE /\ transactions' = createTransaction(req[r].user.id, 0, "", amount,
                                                   "withdrawal-to-wallet")
              /\ req' = [req EXCEPT ![r] =
                           [@ EXCEPT !.pc = "upd1", !.amount = amount,
                                     !.pinOk = isValidPin, !.did = {"tx"}]]
    /\ UNCHANGED riskVars
    /\ UNCHANGED <<users, qrPayments, userSessions, now, faults>>

\* POST /api/transactions/withdraw: updateUserBalance.
WithdrawUpdateBalance(r) ==
    /\ req[r].kind = "withdraw" /\ req[r].pc = "upd1"
    /\ users' = updateUserBalance(req[r].user.id,
                                  DebitNewBalance(req[r].user, req[r].amount))
    /\ req' = [req EXCEPT ![r] = [@ EXCEPT !.pc = "upd2", !.did = @ \cup {"debit"}]]
    /\ UNCHANGED riskVars
    /\ UNCHANGED <<transactions, qrPayments, userSessions, now, faults>>

\* POST /api/transactions/withdraw: updateUserWalletBalance and the reply.
WithdrawUpdateWallet(r) ==
    /\ req[r].kind = "withdraw" /\ req[r].pc = "upd2"
    /\ users' = updateUserWalletBalance(req[r].user.id,
                    WithdrawNewWalletBalance(req[r].user, req[r].amount))
    /\ req' = [req EXCEPT ![r] =
                 [Finish(r, "200") EXCEPT !.did = @ \cup {"credit"}]]
    /\ UNCHANGED riskVars
    /\ UNCHANGED <<transactions, qrPayments, userSessions, now, faults>>

\* The body's toAccountNumber: one of these, or absent ("").
ToAccountNumbers == AccountNumbers \cup {""}

\* toNewBalance of the transfer handler.
TransferToNewBalance(toUser, amount) == toFixed2(parseFloat(toUser.balance) + amount)

\* A destination check that only looks at whether a row was found.
DestinationMissingAbsentOnly(found) == found = {}

\* The transfer handler's check of the row found for the destination:
\* !toUser || !toUser.isActive.
DestinationMissing(found) == found = {} \/ \A t \in found : ~users[t].isActive

\* POST /api/transactions/transfer up to and including getUserByAccountNumber
\* and the checks on what it returned.  req[r].to records the account number
\* that was looked up.
TransferLookup(r) ==
    /\ req[r].kind = "transfer" /\ req[r].pc = "handler"
    /\ \E amount \in Amounts, isValidPin \in BOOLEAN, toAccountNumber \in ToAccountNumbers :
         LET found == getUserByAccountNumber(toAccountNumber) IN
         IF ~ValidAmount(amount)
         THEN req' = [req EXCEPT ![r] = Finish(r, "400 Invalid input")]
         ELSE IF toAccountNumber = ""
         THEN req' = [req EXCEPT ![r] =
                        Finish(r, "400 Destination account number is required")]
         ELSE IF ~isValidPin
         THEN req' = [req EXCEPT ![r] = Finish(r, "401 Invalid PIN")]
         ELSE IF DestinationMissing(found)
         THEN req' = [req EXCEPT ![r] =
                        [Finish(r, "404 Destination account not found")
                           EXCEPT !.to = toAccountNumber]]
         ELSE \E t \in found :
                IF t = req[r].user.id
                THEN req' = [req EXCEPT ![r] =
                               [Finish(r, "400 Cannot transfer to same account")
                                  EXCEPT !.to = toAccountNumber]]
                ELSE IF Insufficient(parseFloat(req[r].user.balance), amount)
                THEN req' = [req EXCEPT ![r] =
                               [Finish(r, "400 Insufficient balance")
                                  EXCEPT !.to = toAccountNumber]]
                ELSE req' = [req EXCEPT ![r] =
                               [@ EXCEPT !.pc = "createTx", !.amount = amount,
                                         !.pinOk = isValidPin,
                                         !.to = toAccountNumber,
                                         !.toUser = UserRow(t)]]
    /\ UNCHANGED riskVars
    /\ UNCHANGED <<users, transactions, qrPayments, userSessions, now, faults>>

\* POST /api/transactions/transfer: createTransaction.
TransferCreateTransaction(r) ==
    /\ req[r].kind = "transfer" /\ req[r].pc = "createTx"
    /\ transactions' = createTransaction(req[r].user.id, req[r].toUser.id,
                                         users[req[r].toUser.id].accountNumber,
                                         req[r].amount, "transfer")
    /\ req' = [req EXCEPT ![r] = [@ EXCEPT !.pc = "upd1", !.did = {"tx"}]]
    /\ UNCHANGED riskVars
    /\ UNCHANGED <<users, qrPayments, userSessions, now, faults>>

\* POST /api/transactions/transfer: updateUserBalance of the source.
TransferDebit(r) ==
    /\ req[r].kind = "transfer" /\ req[r].pc = "upd1"
    /\ users' = updateUserBalance(req[r].user.id,
                                  DebitNewBalance(req[r].user, req[r].amount))
    /\ req' = [req EXCEPT ![r] = [@ EXCEPT !.pc = "upd2", !.did = @ \cup {"debit"}]]
    /\ UNCHANGED riskVars
    /\ UNCHANGED <<transactions, qrPayments, userSessions, now, faults>>

\* POST /api/transactions/transfer: updateUserBalance of the destination and
\* the reply.
TransferCredit(r) ==
    /\ req[r].kind = "transfer" /\ req[r].pc = "upd2"
    /\ users' = updateUserBalance(req[r].toUser.id,
                                  TransferToNewBalance(req[r].toUser, req[r].amount))
    /\ req' = [req EXCEPT ![r] =
                 [Finish(r, "200") EXCEPT !.did = @ \cup {"credit"}]]
    /\ UNCHANGED riskVars
    /\ UNCHANGED <<transactions, qrPayments, userSessions, now, faults>>

\* A row of qr_payments as inserted: is_used defaults to false.
createQrPaymentRow(id, userId, qrCode, amount, merchantName, expiresAt) ==
    <<[id |-> id, userId |-> userId, qrCode |-> qrCode, amount |-> amount,
       merchantName |-> merchantName, isUsed |-> FALSE, expiresAt |-> expiresAt]>>

\* DatabaseStorage.createQrPayment: insert one row; id is the serial.  The
\* 16 random bytes of the token are the row's number.
createQrPayment(userId, qrCode, amount, merchantName, expiresAt) ==
    qrPayments \o createQrPaymentRow(Len(qrPayments) + 1, userId, qrCode,
                                     amount, merchantName, expiresAt)

\* The lookup gone wrong: the expires_at condition is missing.
getQrPaymentByCodeNoExpiry(qrCode, date) ==
    {i \in 1..Len(qrPayments) :
        /\ qrPayments[i].qrCode = qrCode
        /\ qrPayments[i].isUsed = FALSE}

\* The lookup gone wrong: the is_used condition is missing.
getQrPaymentByCodeIgnoreUsed(qrCode, date) ==
    {i \in 1..Len(qrPayments) :
        /\ qrPayments[i].qrCode = qrCode
        /\ qrPayments[i].expiresAt >= date}

\* DatabaseStorage.getQrPaymentByCode: the rows with that token that are
\* not used and whose expiresAt >= new Date().
getQrPaymentByCode(qrCode, date) ==
    {i \in 1..Len(qrPayments) :
        /\ qrPayments[i].qrCode = qrCode
        /\ qrPayments[i].isUsed = FALSE
        /\ qrPayments[i].expiresAt >= date}

\* DatabaseStorage.markQrPaymentAsUsed: set is_used = true where id = id.
markQrPaymentAsUsed(id) ==
    [i \in 1..Len(qrPayments) |->
       IF qrPayments[i].id = id THEN [qrPayments[i] EXCEPT !.isUsed = TRUE]
       ELSE qrPayments[i]]

\* `amount ? amount.toString() : null` written to a decimal(15,2) column.
GenerateAmount(amount) ==
    IF amount = NoAmount \/ amount = 0 THEN NoAmount ELSE toFixed2(amount)

\* The body's merchantName: a label, or absent ("").
MerchantNames == {"", "Shop"}

\* `merchantName || 'QR Payment'`.
GenerateMerchantName(merchantName) ==
    IF merchantName = "" THEN "QR Payment" ELSE merchantName

\* POST /api/qr/generate: createQrPayment and the reply.
Generate(r) ==
    /\ req[r].kind = "generate" /\ req[r].pc = "handler"
    /\ Len(qrPayments) < MaxCodes
    /\ \E amount \in GenerateAmounts, merchantName \in MerchantNames :
         /\ qrPayments' = createQrPayment(req[r].user.id, Len(qrPayments) + 1,
                                          GenerateAmount(amount),
                                          GenerateMerchantName(merchantName),
                                          now + QrTtl)
         /\ req' = [req EXCEPT ![r] =
                      [Finish(r, "200") EXCEPT !.code = Len(qrPayments) + 1,
                                               !.did = {"code"}]]
    /\ UNCHANGED riskVars
    /\ UNCHANGED <<users, transactions, userSessions, now, faults>>

\* The body's qrCode: the token of a row, issued or not yet, a token that
\* no row ever holds (MaxCodes + 1), or absent.
QrCodes == 0..(MaxCodes + 1)

\* What the qr_payments table holds for a token when a lookup runs: no row,
\* a used row or an unused row.
SeenAs(qrCode) ==
    IF qrCode \notin 1..Len(qrPayments) THEN "absent"
    ELSE IF qrPayments[qrCode].isUsed THEN "used"
    ELSE "unused"

\* `amount || parseFloat(qrPayment.amount || '0')`.
PaymentAmount(amount, qr) ==
    IF amount # NoAmount /\ amount # 0 THEN amount
    ELSE IF qr.amount = NoAmount THEN parseFloat(0)
    ELSE parseFloat(qr.amount)

\* newWalletBalance of the scan handler.
ScanNewWalletBalance(user, paymentAmount) ==
    toFixed2(parseFloat(user.walletBalance) - paymentAmount)

\* POST /api/qr/scan up to and including getQrPaymentByCode and the checks
\* on what it returned.
Scan(r) ==
    /\ req[r].kind = "scan" /\ req[r].pc = "handler"
    /\ \E qrCode \in QrCodes, amount \in ScanAmounts :
         LET found == getQrPaymentByCode(qrCode, now) IN
         IF qrCode = NoCode
         THEN req' = [req EXCEPT ![r] = Finish(r, "400 QR code is required")]
         ELSE IF found = {}
         THEN req' = [req EXCEPT ![r] =
                        [Finish(r, "404 Invalid or expired QR code")
                           EXCEPT !.code = qrCode, !.at = now,
                                  !.seen = SeenAs(qrCode)]]
         ELSE \E i \in found :
                LET paymentAmount == PaymentAmount(amount, qrPayments[i]) IN
                IF paymentAmount <= 0
                THEN req' = [req EXCEPT ![r] =
                               [Finish(r, "400 Invalid payment amount")
                                  EXCEPT !.code = qrCode, !.at = now,
                                         !.seen = SeenAs(qrCode),
                                         !.override = amount]]
                ELSE IF Insufficient(parseFloat(req[r].user.walletBalance), paymentAmount)
                THEN req' = [req EXCEPT ![r] =
                               [Finish(r, "400 Insufficient wallet balance")
                                  EXCEPT !.code = qrCode, !.at = now,
                                         !.seen = SeenAs(qrCode),
                                         !.override = amount]]
                ELSE req' = [req EXCEPT ![r] =
                               [@ EXCEPT !.pc = "createTx", !.code = qrCode, !.at = now,
                                         !.seen = SeenAs(qrCode),
                                         !.override = amount,
                                         !.amount = paymentAmount,
                                         !.qr = [id |-> i, amount |-> qrPayments[i].amount,
                                                 merchantName |-> qrPayments[i].merchantName]]]
    /\ UNCHANGED riskVars
    /\ UNCHANGED <<users, transactions, qrPayments, userSessions, now, faults>>

\* `qrPayment.merchantName || 'QR Merchant'`.
ScanToAccountNumber(qr) ==
    IF qr.merchantName = "" THEN "QR Merchant" ELSE qr.merchantName

\* POST /api/qr/scan: createTransaction.
ScanCreateTransaction(r) ==
    /\ req[r].kind = "scan" /\ req[r].pc = "createTx"
    /\ transactions' = createTransaction(req[r].user.id, 0,
                                         ScanToAccountNumber(req[r].qr),
                                         req[r].amount, "wallet-payment")
    /\ req' = [req EXCEPT ![r] = [@ EXCEPT !.pc = "upd1", !.did = {"tx"}]]
    /\ UNCHANGED riskVars
    /\ UNCHANGED <<users, qrPayments, userSessions, now, faults>>

\* POST /api/qr/scan: updateUserWalletBalance.
ScanUpdateWallet(r) ==
    /\ req[r].kind = "scan" /\ req[r].pc = "upd1"
    /\ users' = updateUserWalletBalance(req[r].user.id,
                    ScanNewWalletBalance(req[r].user, req[r].amount))
    /\ req' = [req EXCEPT ![r] = [@ EXCEPT !.pc = "mark", !.did = @ \cup {"debit"}]]
    /\ UNCHANGED riskVars
    /\ UNCHANGED <<transactions, qrPayments, userSessions, now, faults>>

\* POST /api/qr/scan: markQrPaymentAsUsed and the reply.
ScanMarkUsed(r) ==
    /\ req[r].kind = "scan" /\ req[r].pc = "mark"
    /\ qrPayments' = markQrPaymentAsUsed(req[r].qr.id)
    /\ req' = [req EXCEPT ![r] =
                 [Finish(r, "200") EXCEPT !.did = @ \cup {"used"}]]
    /\ UNCHANGED riskVars
    /\ UNCHANGED <<users, transactions, userSessions, now, faults>>

\* A storage write of a handler rejects (the database is unreachable, the
\* statement fails): the handler's catch block answers 500 and the
\* remaining statements of the try block do not run.  A rejection of a
\* handler's first storage call leaves nothing behind and is not modelled.
StorageFail(r) ==
    /\ req[r].pc \in {"createTx", "upd1", "upd2", "mark"}
    /\ faults < MaxFaults
    /\ faults' = faults + 1
    /\ req' = [req EXCEPT ![r] = Finish(r, "500 Internal server error")]
    /\ UNCHANGED riskVars
    /\ UNCHANGED <<users, transactions, qrPayments, userSessions, now>>

\* The clock advances.
Tick ==
    /\ now < MaxTime
    /\ now' = now + 1
    /\ UNCHANGED riskVars
    /\ UNCHANGED <<users, transactions, qrPayments, userSessions, req, faults>>

Kinds == {"deposit", "withdraw", "transfer", "generate", "scan"}

Next ==
    \/ \E r \in Reqs : Authenticate(r, Kinds)
    \/ \E r \in Reqs : GetUser(r)
    \/ \E r \in Reqs : Deposit(r)
    \/ \E r \in Reqs : DepositUpdate(r)
    \/ \E r \in Reqs : Withdraw(r)
    \/ \E r \in Reqs : WithdrawUpdateBalance(r)
    \/ \E r \in Reqs : WithdrawUpdateWallet(r)
    \/ \E r \in Reqs : TransferLookup(r)
    \/ \E r \in Reqs : TransferCreateTransaction(r)
    \/ \E r \in Reqs : TransferDebit(r)
    \/ \E r \in Reqs : TransferCredit(r)
    \/ \E r \in Reqs : Generate(r)
    \/ \E r \in Reqs : Scan(r)
    \/ \E r \in Reqs : ScanCreateTransaction(r)
    \/ \E r \in Reqs : ScanUpdateWallet(r)
    \/ \E r \in Reqs : ScanMarkUsed(r)
    \/ \E r \in Reqs : StorageFail(r)
    \/ Tick

Spec == Init /\ [][Next]_vars

\* The continuation of request r: whichever of its awaited calls is pending
\* settles, by resolving or by throwing, and the handler runs up to its next
\* await or to its reply.
Resume(r) ==
    \/ GetUser(r)
    \/ Deposit(r) \/ DepositUpdate(r)
    \/ Withdraw(r) \/ WithdrawUpdateBalance(r) \/ WithdrawUpdateWallet(r)
    \/ TransferLookup(r) \/ TransferCreateTransaction(r)
    \/ TransferDebit(r) \/ TransferCredit(r)
    \/ Generate(r)
    \/ Scan(r) \/ ScanCreateTransaction(r) \/ ScanUpdateWallet(r)
    \/ ScanMarkUsed(r)
    \/ StorageFail(r)

\* The event loop runs every continuation that is ready: no request that can
\* take a step waits for ever.
SpecLive == Spec /\ \A r \in Reqs : WF_vars(Resume(r))

\* The state after account 2 has issued one code of 500.00 at time 0
\* (Generate by account 2 with amount 500 and merchantName "Shop"), with the
\* requests still to come.
InitQr ==
    /\ users = InitUsers
    /\ transactions = <<>>
    /\ qrPayments = createQrPaymentRow(1, 2, 1, GenerateAmount(Num(500)),
                                       GenerateMerchantName("Shop"), QrTtl)
    /\ userSessions = InitSessions
    /\ now = 0
    /\ req = [r \in Reqs |-> IdleReq]
    /\ faults = 0
    /\ fraudAlerts = <<>>
    /\ risk = IdleRisk

\* Redemption requests only, against the issued code.
NextQr ==
    \/ \E r \in Reqs : Authenticate(r, {"scan"})
    \/ \E r \in Reqs : GetUser(r)
    \/ \E r \in Reqs : Scan(r)
    \/ \E r \in Reqs : ScanCreateTransaction(r)
    \/ \E r \in Reqs : ScanUpdateWallet(r)
    \/ \E r \in Reqs : ScanMarkUsed(r)
    \/ \E r \in Reqs : StorageFail(r)
    \/ Tick

SpecQr == InitQr /\ [][NextQr]_vars

\* A delete that also takes the rows expiring at this very moment.
cleanupExpiredQrPaymentsAtExpiry ==
    SelectSeq(qrPayments, LAMBDA row : ~(row.expiresAt <= now))

\* DatabaseStorage.cleanupExpiredQrPayments: delete the rows with
\* expires_at < NOW().
cleanupExpiredQrPayments ==
    SelectSeq(qrPayments, LAMBDA row : ~(row.expiresAt < now))

\* The reaper runs.  (No route calls cleanupExpiredQrPayments; it is the
\* storage call a periodic job is to make.)
CleanupExpiredQrPayments ==
    /\ qrPayments' = cleanupExpiredQrPayments
    /\ UNCHANGED riskVars
    /\ UNCHANGED <<users, transactions, userSessions, now, req, faults>>

NextReaper ==
    \/ NextQr
    \/ CleanupExpiredQrPayments

\* Redemption requests against the issued code, with the reaper running.
SpecReaper == InitQr /\ [][NextReaper]_vars

\* ------------------------------------------------------------ sessions
\* DatabaseStorage.deleteSession: delete the rows with that token.
deleteSession(token) == {s \in userSessions : s.token # token}

\* POST /api/auth/logout: deleteSession(req.session.token) and the reply.
Logout(r) ==
    /\ req[r].kind = "logout" /\ req[r].pc = "handler"
    /\ userSessions' = deleteSession(req[r].token)
    /\ req' = [req EXCEPT ![r] = [Finish(r, "200") EXCEPT !.did = {"logout"}]]
    /\ UNCHANGED riskVars
    /\ UNCHANGED <<users, transactions, qrPayments, now, faults>>

\* The sessions some time into their 24 hours: that of account 2 has one
\* tick left.
InitSession ==
    /\ users = InitUsers
    /\ transactions = <<>>
    /\ qrPayments = <<>>
    /\ userSessions = {[token |-> "tok1", userId |-> 1, expiresAt |-> SessionTtl],
                       [token |-> "tok2", userId |-> 2, expiresAt |-> 1],
                       [token |-> "tok3", userId |-> 3, expiresAt |-> SessionTtl]}
    /\ now = 0
    /\ req = [r \in Reqs |-> IdleReq]
    /\ faults = 0
    /\ fraudAlerts = <<>>
    /\ risk = IdleRisk

\* The routes of Next and the logout route.
NextSession ==
    \/ \E r \in Reqs : Authenticate(r, Kinds \cup {"logout"})
    \/ \E r \in Reqs : GetUser(r)
    \/ \E r \in Reqs : Logout(r)
    \/ \E r \in Reqs : Deposit(r)
    \/ \E r \in Reqs : DepositUpdate(r)
    \/ \E r \in Reqs : Withdraw(r)
    \/ \E r \in Reqs : WithdrawUpdateBalance(r)
    \/ \E r \in Reqs : WithdrawUpdateWallet(r)
    \/ \E r \in Reqs : TransferLookup(r)
    \/ \E r \in Reqs : TransferCreateTransaction(r)
    \/ \E r \in Reqs : TransferDebit(r)
    \/ \E r \in Reqs : TransferCredit(r)
    \/ \E r \in Reqs : Generate(r)
    \/ \E r \in Reqs : Scan(r)
    \/ \E r \in Reqs : ScanCreateTransaction(r)
    \/ \E r \in Reqs : ScanUpdateWallet(r)
    \/ \E r \in Reqs : ScanMarkUsed(r)
    \/ \E r \in Reqs : StorageFail(r)
    \/ Tick

\* Every authenticated route, with sessions that expire and are deleted.
SpecSession == InitSession /\ [][NextSession]_vars

\* ---------------------------------------------------------------- risk scoring
\* FraudDetectionService.  Time in an evaluation is in minutes: createdAt
\* of a row and the reading `at` of Date.now().  No route calls the
\* service: its methods are applied here to a transaction, the acting
\* user's row and the rows of the transactions table they are given.
UNUSUAL_AMOUNT_THRESHOLD == 10000
FREQUENT_TRANSACTIONS_THRESHOLD == 5
HIGH_VELOCITY_THRESHOLD == 3

\* The risk weights pushed by analyzeTransaction.
RiskScoreOf(type) ==
    CASE type = "unusual_amount" -> 75
      [] type = "frequent_transactions" -> 60
      [] type = "high_velocity" -> 80
      [] type = "time_pattern" -> 40
      [] type = "round_amount" -> 30

\* patterns.push({type, riskScore}).
Push(patterns, type) ==
    Append(patterns, [type |-> type, riskScore |-> RiskScoreOf(type)])

\* The check gone wrong: `>=` in place of `>` on half the balance.
isUnusualAmountFromHalf(transaction, user) ==
    \/ parseFloat(transaction.amount) > Num(UNUSUAL_AMOUNT_THRESHOLD)
    \/ parseFloat(transaction.amount) >= (parseFloat(user.balance) * 5) \div 10

\* isUnusualAmount: amount > threshold || amount > userBalance * 0.5.
isUnusualAmount(transaction, user) ==
    \/ parseFloat(transaction.amount) > Num(UNUSUAL_AMOUNT_THRESHOLD)
    \/ parseFloat(transaction.amount) > (parseFloat(user.balance) * 5) \div 10

\* DatabaseStorage.getTransactionsByUserId over the rows of a table: the
\* rows whose from_user_id or to_user_id is userId.
getTransactionsByUserId(table, userId) ==
    SelectSeq(table, LAMBDA t : t.fromUserId = userId \/ t.toUserId = userId)

\* The filter gone wrong: the status condition is missing.
getRecentTransactionsAnyStatus(table, date, userId, minutes) ==
    LET cutoffTime == date - minutes IN
    SelectSeq(getTransactionsByUserId(table, userId),
              LAMBDA t : t.createdAt > cutoffTime)

\* getRecentTransactions: the user's rows with createdAt > cutoffTime and
\* status 'completed'.
getRecentTransactions(table, date, userId, minutes) ==
    LET cutoffTime == date - minutes IN
    SelectSeq(getTransactionsByUserId(table, userId),
              LAMBDA t : t.createdAt > cutoffTime /\ t.status = "completed")

\* Date.prototype.getHours of a time in minutes.
getHours(date) == (date \div 60) % 24

\* isUnusualTime: hour >= 23 || hour <= 6.
isUnusualTime(transaction) ==
    LET hour == getHours(transaction.createdAt) IN hour >= 23 \/ hour <= 6

\* isRoundAmount: amount % 1000 === 0 && amount >= 1000.
isRoundAmount(transaction) ==
    LET amount == parseFloat(transaction.amount) IN
    amount % Num(1000) = 0 /\ amount >= Num(1000)

\* A risk score is held as its number of sixtieths: the average of up to
\* five weights is then a whole number.
ScoreUnit == 60

\* patterns.reduce((sum, pattern) => sum + pattern.riskScore, 0).
TotalScore(patterns) ==
    LET f[n \in 0..Len(patterns)] ==
          IF n = 0 THEN 0 ELSE f[n - 1] + patterns[n].riskScore
    IN f[Len(patterns)]

Min(a, b) == IF a <= b THEN a ELSE b

\* The score gone wrong: the cap of 100 is missing.
calculateRiskScoreNoCap(patterns) ==
    IF Len(patterns) = 0 THEN 0
    ELSE (TotalScore(patterns) * ScoreUnit) \div Len(patterns)
           + Min(Len(patterns) * 10, 30) * ScoreUnit

\* calculateRiskScore.
calculateRiskScore(patterns) ==
    IF Len(patterns) = 0 THEN 0
    ELSE LET totalScore == TotalScore(patterns)
             weightedScore == (totalScore * ScoreUnit) \div Len(patterns)
             patternBonus == Min(Len(patterns) * 10, 30)
         IN Min(weightedScore + patternBonus * ScoreUnit, 100 * ScoreUnit)

\* --- the inputs of an evaluation
\* transaction.amount, a decimal(15,2): 500.00, 1000.00, 1500.00, 9999.99,
\* 10000.00, 10000.01 and 12000.00.
RiskAmounts == {Dec(500), Dec(1000), Dec(1500), Dec(10000) - 1, Dec(10000),
                Dec(10000) + 1, Dec(12000)}
\* user.balance, a decimal(15,2).
RiskBalances == {Dec(1000), Dec(2000), Dec(3000), Dec(30000)}
\* The local hour of transaction.createdAt.
RiskHours == {0, 6, 7, 22, 23}

\* n copies of a row.
Rows(n, row) == [i \in 1..n |-> row]

\* A row of the transactions table, with the columns the service reads.
TransactionRow(fromUserId, toUserId, amount, status, createdAt) ==
    [fromUserId |-> fromUserId, toUserId |-> toUserId, amount |-> amount,
     status |-> status, createdAt |-> createdAt]

\* The transaction under evaluation: a completed transfer by account 1 at
\* half past the hour, on the second day of the clock.
RiskTransaction(amount, hour) ==
    TransactionRow(1, 2, amount, "completed", 1440 + hour * 60 + 30)

\* The table the evaluation reads, a minute after the transaction: the
\* transaction itself, completed rows of account 1 that are 5, 10, 30 and
\* 60 minutes old (sent when 5 or 10 minutes old, received when older), a
\* pending row of account 1 and a completed row of account 2 alone.
RiskTable(transaction, at, n5, n10, n30, n60, nPending, nOther) ==
    <<transaction>>
    \o Rows(n5, TransactionRow(1, 0, Dec(100), "completed", at - 5))
    \o Rows(n10, TransactionRow(1, 0, Dec(100), "completed", at - 10))
    \o Rows(n30, TransactionRow(2, 1, Dec(100), "completed", at - 30))
    \o Rows(n60, TransactionRow(3, 1, Dec(100), "completed", at - 60))
    \o Rows(nPending, TransactionRow(1, 0, Dec(100), "pending", at - 5))
    \o Rows(nOther, TransactionRow(0, 2, Dec(100), "completed", at - 5))

InitRisk ==
    /\ users = InitUsers
    /\ transactions = <<>>
    /\ qrPayments = <<>>
    /\ userSessions = InitSessions
    /\ now = 0
    /\ req = [r \in Reqs |-> IdleReq]
    /\ faults = 0
    /\ fraudAlerts = <<>>
    /\ \E amount \in RiskAmounts, balance \in RiskBalances, hour \in RiskHours,
          n5 \in 0..2, n10 \in 0..1, n30 \in 0..2, n60 \in 0..1,
          nPending \in 0..1, nOther \in 0..1 :
         LET transaction == RiskTransaction(amount, hour)
             at == transaction.createdAt + 1
         IN risk = [IdleRisk EXCEPT
                      !.pc = "start",
                      !.transaction = transaction,
                      !.user = [id |-> 1, balance |-> balance, walletBalance |-> 0],
                      !.at = at,
                      !.table = RiskTable(transaction, at, n5, n10, n30, n60,
                                          nPending, nOther)]

ledgerVars == <<users, transactions, qrPayments, userSessions, now, req, faults>>

\* analyzeTransaction up to its first await: check 1.
Analyze ==
    /\ risk.pc = "start"
    /\ risk' = [risk EXCEPT
                  !.pc = "recent60",
                  !.patterns = IF isUnusualAmount(risk.transaction, risk.user)
                               THEN Push(<<>>, "unusual_amount") ELSE <<>>]
    /\ UNCHANGED <<ledgerVars, fraudAlerts>>

\* analyzeTransaction after getRecentTransactions(user.id, 60): check 2.
AnalyzeFrequent ==
    /\ risk.pc = "recent60"
    /\ LET recentTransactions ==
             getRecentTransactions(risk.table, risk.at, risk.user.id, 60)
       IN risk' = [risk EXCEPT
                     !.pc = "recent10",
                     !.recent = Len(recentTransactions),
                     !.patterns =
                        IF Len(recentTransactions) >= FREQUENT_TRANSACTIONS_THRESHOLD
                        THEN Push(@, "frequent_transactions") ELSE @]
    /\ UNCHANGED <<ledgerVars, fraudAlerts>>

\* analyzeTransaction after getRecentTransactions(user.id, 10): checks 3, 4
\* and 5, and the return.
AnalyzeVelocity ==
    /\ risk.pc = "recent10"
    /\ LET velocityTransactions ==
             getRecentTransactions(risk.table, risk.at, risk.user.id, 10)
           p3 == IF Len(velocityTransactions) >= HIGH_VELOCITY_THRESHOLD
                 THEN Push(risk.patterns, "high_velocity") ELSE risk.patterns
           p4 == IF isUnusualTime(risk.transaction)
                 THEN Push(p3, "time_pattern") ELSE p3
           p5 == IF isRoundAmount(risk.transaction)
                 THEN Push(p4, "round_amount") ELSE p4
       IN risk' = [risk EXCEPT !.pc = "analyzed", !.patterns = p5,
                               !.velocity = Len(velocityTransactions)]
    /\ UNCHANGED <<ledgerVars, fraudAlerts>>

\* calculateRiskScore of the patterns returned.
CalculateRiskScore ==
    /\ risk.pc = "analyzed"
    /\ risk' = [risk EXCEPT !.pc = "scored",
                            !.score = calculateRiskScore(risk.patterns)]
    /\ UNCHANGED <<ledgerVars, fraudAlerts>>

NextRisk ==
    \/ Analyze
    \/ AnalyzeFrequent
    \/ AnalyzeVelocity
    \/ CalculateRiskScore

SpecRisk == InitRisk /\ [][NextRisk]_vars

\* A handler commits a transaction of the account while the evaluation waits
\* for one of its two reads of the history: createTransaction inserts the
\* row, completed and created at this moment.
RiskCommit ==
    /\ risk.pc \in {"recent60", "recent10"}
    /\ risk.commits < MaxCommits
    /\ risk' = [risk EXCEPT
                  !.commits = @ + 1,
                  !.table = Append(@, TransactionRow(risk.user.id, 0,
                                                     risk.transaction.amount,
                                                     "completed", risk.at))]
    /\ UNCHANGED <<ledgerVars, fraudAlerts>>

NextRiskLoad ==
    \/ NextRisk
    \/ RiskCommit

\* An evaluation by FraudDetectionService while the handlers keep committing.
SpecRiskLoad == InitRisk /\ [][NextRiskLoad]_vars

\* ------------------------------------------------------ fraud alert review
\* DatabaseStorage.createFraudAlert: insert one row; id is the serial, status
\* takes the column default, reviewedBy (0) and reviewedAt are null.
createFraudAlert(userId) ==
    Append(fraudAlerts,
           [id |-> Len(fraudAlerts) + 1, userId |-> userId, status |-> "pending",
            reviewedBy |-> 0, reviewedAt |-> NoTime])

\* DatabaseStorage.updateFraudAlertStatus: set status, reviewedBy and
\* reviewedAt = new Date() where id matches.
updateFraudAlertStatus(id, status, reviewedBy) ==
    [i \in 1..Len(fraudAlerts) |->
       IF fraudAlerts[i].id = id
       THEN [fraudAlerts[i] EXCEPT !.status = status,
                                   !.reviewedBy = reviewedBy,
                                   !.reviewedAt = now]
       ELSE fraudAlerts[i]]

\* A role check that lets every authenticated user through.
IsAdminAnyone(user) == user.id \in Users

\* authenticateAdmin: req.user.role === 'admin'.  No handler changes role.
IsAdmin(user) == users[user.id].role = "admin"

\* A list of accepted values that also has the initial one.
ReviewStatusesWithPending == {"pending", "reviewed", "false_positive", "confirmed_fraud"}

\* The values the review handler accepts for status.
ReviewStatuses == {"reviewed", "false_positive", "confirmed_fraud"}

\* The body's status: an accepted value, the initial value, or something else.
BodyStatuses == ReviewStatuses \cup {"pending", "escalated"}

\* The :id of the path: the id of a row, or one more than any row's.
AlertIds == 1..(MaxAlerts + 1)

\* PUT /api/fraud/alerts/:id/status up to the await: the role check of
\* authenticateAdmin and the check of the body's status.
Review(r) ==
    /\ req[r].kind = "review" /\ req[r].pc = "handler"
    /\ \E id \in AlertIds, status \in BodyStatuses :
         IF ~IsAdmin(req[r].user)
         THEN req' = [req EXCEPT ![r] = Finish(r, "403 Admin access required")]
         ELSE IF status \notin ReviewStatuses
         THEN req' = [req EXCEPT ![r] = Finish(r, "400 Invalid status")]
         ELSE req' = [req EXCEPT ![r] =
                        [@ EXCEPT !.pc = "upd1", !.alert = id, !.status = status]]
    /\ UNCHANGED <<users, transactions, qrPayments, userSessions, now, faults,
                   fraudAlerts, risk>>

\* PUT /api/fraud/alerts/:id/status: updateFraudAlertStatus and the reply.
ReviewUpdate(r) ==
    /\ req[r].kind = "review" /\ req[r].pc = "upd1"
    /\ fraudAlerts' = updateFraudAlertStatus(req[r].alert, req[r].status,
                                             req[r].user.id)
    /\ req' = [req EXCEPT ![r] = [Finish(r, "200") EXCEPT !.did = {"review"}]]
    /\ UNCHANGED <<users, transactions, qrPayments, userSessions, now, faults,
                   risk>>

\* The Risk Scoring Pipeline stores an alert for an account.  (No route
\* calls the pipeline; this is the insert it is written to make.)
CreateFraudAlert ==
    /\ Len(fraudAlerts) < MaxAlerts
    /\ \E userId \in {1, 3} : fraudAlerts' = createFraudAlert(userId)
    /\ UNCHANGED <<users, transactions, qrPayments, userSessions, now, req,
                   faults, risk>>

\* Account 2 is an administrator (a users row with role 'admin').
InitReview ==
    /\ users = [InitUsers EXCEPT ![2].role = "admin"]
    /\ transactions = <<>>
    /\ qrPayments = <<>>
    /\ userSessions = InitSessions
    /\ now = 0
    /\ req = [r \in Reqs |-> IdleReq]
    /\ faults = 0
    /\ fraudAlerts = <<>>
    /\ risk = IdleRisk

NextReview ==
    \/ \E r \in Reqs : Authenticate(r, {"review"})
    \/ \E r \in Reqs : GetUser(r)
    \/ \E r \in Reqs : Review(r)
    \/ \E r \in Reqs : ReviewUpdate(r)
    \/ \E r \in Reqs : StorageFail(r)
    \/ CreateFraudAlert
    \/ Tick

\* The review of fraud alerts by administrators.
SpecReview == InitReview /\ [][NextReview]_vars

\* ---------------------------------------------------------------- properties
Done(r) == req[r].pc = "done"

\* No request is in flight.
Quiescent == \A r \in Reqs : req[r].pc \in {"idle", "done"}

\* The sum over all accounts of balance + walletBalance in table t.
TotalOf(t) ==
    LET f[n \in 0..Cardinality(Users)] ==
          IF n = 0 THEN 0 ELSE f[n - 1] + t[n].balance + t[n].walletBalance
    IN f[Cardinality(Users)]

\* What the rows of the transaction log say happened to u's balance.
BalanceEffect(t, u) ==
    CASE t.transactionType = "deposit" /\ t.toUserId = u -> t.amount
      [] t.transactionType = "withdrawal-to-wallet" /\ t.fromUserId = u -> -t.amount
      [] t.transactionType = "transfer" /\ t.fromUserId = u -> -t.amount
      [] t.transactionType = "transfer" /\ t.toUserId = u -> t.amount
      [] OTHER -> 0

NetBalance(u) ==
    LET f[n \in 0..Len(transactions)] ==
          IF n = 0 THEN 0 ELSE f[n - 1] + BalanceEffect(transactions[n], u)
    IN f[Len(transactions)]

\* What row t of the log records for account u: a debit or a credit of its
\* balance, or a debit or a credit of its wallet.
LogEntry(what, t, u) ==
    CASE what = "balanceDebit" ->
           IF t.transactionType \in {"withdrawal-to-wallet", "transfer"}
              /\ t.fromUserId = u
           THEN t.amount ELSE 0
      [] what = "balanceCredit" ->
           IF t.transactionType \in {"deposit", "transfer"} /\ t.toUserId = u
           THEN t.amount ELSE 0
      [] what = "walletDebit" ->
           IF t.transactionType = "wallet-payment" /\ t.fromUserId = u
           THEN t.amount ELSE 0
      [] what = "walletCredit" ->
           IF t.transactionType = "withdrawal-to-wallet" /\ t.fromUserId = u
           THEN t.amount ELSE 0

SumLog(what, u) ==
    LET f[n \in 0..Len(transactions)] ==
          IF n = 0 THEN 0 ELSE f[n - 1] + LogEntry(what, transactions[n], u)
    IN f[Len(transactions)]

\* C1 (as claimed): once a set of transfer requests, interleaved or not, has
\* completed with no storage failure, the sum over all accounts of
\* balance + walletBalance equals its value before them.
C1_Conservation ==
    (/\ Quiescent
     /\ faults = 0
     /\ \A r \in Reqs : req[r].kind \in {"none", "transfer"})
    => TotalOf(users) = TotalOf(InitUsers)

\* C2: in every reachable state, under any interleaving of deposit,
\* withdraw-to-wallet, transfer and QR-redemption requests, every account has
\* balance >= 0 and walletBalance >= 0.
C2_NonNegative ==
    \A u \in Users : users[u].balance >= 0 /\ users[u].walletBalance >= 0

\* Two debiting requests of one account have raced: each has written its
\* debit, and together they ask for more than the account held.
C2_Witness ==
    \E r1, r2 \in Reqs :
        /\ r1 # r2
        /\ req[r1].sessUser = req[r2].sessUser
        /\ req[r1].kind \in {"withdraw", "transfer"}
        /\ req[r2].kind \in {"withdraw", "transfer"}
        /\ "debit" \in req[r1].did /\ "debit" \in req[r2].did
        /\ req[r1].amount + req[r2].amount
             > parseFloat(InitUsers[req[r1].sessUser].balance)
        /\ transactions # <<>>
        /\ NetBalance(req[r1].sessUser) < -InitUsers[req[r1].sessUser].balance

\* C3 (as claimed): of the redemption requests for one payment code at most
\* one debits a wallet and succeeds; the others fail.
C3_AtMostOnce ==
    \A r1, r2 \in Reqs :
        (/\ r1 # r2
         /\ req[r1].kind = "scan" /\ req[r2].kind = "scan"
         /\ req[r1].code # NoCode /\ req[r1].code = req[r2].code)
        => ~("debit" \in req[r1].did /\ "debit" \in req[r2].did)

\* C4 (as claimed): when the requests that touched an account have all
\* completed with success, its balance is its initial balance plus the net
\* of the amounts of the deposits, withdrawals and transfers recorded for it.
C4_NoLostUpdate ==
    (/\ Quiescent
     /\ faults = 0)
    => \A u \in Users : users[u].balance = InitUsers[u].balance + NetBalance(u)

\* C5 (as claimed): the debits that succeeded against an account never
\* exceed the funds it held plus the credits committed to it.
C5_NoDoubleSpend ==
    (/\ Quiescent
     /\ faults = 0)
    => \A u \in Users :
          /\ SumLog("balanceDebit", u)
               <= InitUsers[u].balance + SumLog("balanceCredit", u)
          /\ SumLog("walletDebit", u)
               <= InitUsers[u].walletBalance + SumLog("walletCredit", u)

\* C6 (as claimed): a transfer of an amount greater than the source's balance
\* fails with InsufficientFunds: the step that accepts a transfer (passes the
\* balance check and goes on to record it) finds amount <= the source's
\* stored balance.
C6_InsufficientRejected ==
    [][\A r \in Reqs :
          (/\ req[r].kind = "transfer"
           /\ req[r].pc = "handler"
           /\ req'[r].pc = "createTx")
          => req'[r].amount <= parseFloat(users[req[r].user.id].balance)]_vars

\* C7 (as claimed): no reachable state has a transfer's source debited and
\* its destination not credited, or the reverse.
C7_TransferAtomic ==
    \A r \in Reqs :
        req[r].kind = "transfer"
        => ("debit" \in req[r].did <=> "credit" \in req[r].did)

\* C8 (as claimed): no reachable state has a redeemer's wallet debited for a
\* code that is still marked unused, nor a code marked used without a debit.
C8_RedemptionAtomic ==
    /\ \A r \in Reqs :
          (req[r].kind = "scan" /\ "debit" \in req[r].did)
          => qrPayments[req[r].code].isUsed
    /\ \A i \in 1..Len(qrPayments) :
          qrPayments[i].isUsed
          => \E r \in Reqs : /\ req[r].kind = "scan" /\ req[r].code = i
                             /\ "debit" \in req[r].did

\* C9 (as claimed): no reachable state has a withdraw-to-wallet's balance
\* debit applied without its wallet credit.
C9_WithdrawAtomic ==
    \A r \in Reqs :
        req[r].kind = "withdraw"
        => ("debit" \in req[r].did => "credit" \in req[r].did)

\* The code a scan request asked for is a row whose expiresAt is before /
\* not after the time of the request's lookup.
LookedUpAfter(r) ==
    /\ req[r].kind = "scan" /\ req[r].at # NoTime
    /\ req[r].code \in 1..Len(qrPayments)
    /\ qrPayments[req[r].code].expiresAt < req[r].at

LookedUpAtOrAfter(r) ==
    /\ req[r].kind = "scan" /\ req[r].at # NoTime
    /\ req[r].code \in 1..Len(qrPayments)
    /\ qrPayments[req[r].code].expiresAt <= req[r].at

Rejected404(r) ==
    /\ Done(r)
    /\ req[r].res = "404 Invalid or expired QR code"
    /\ req[r].did = {}

\* The request was refused by the step that looked the code up.
Refused(r) ==
    /\ Done(r)
    /\ req[r].res # "200"
    /\ req[r].did = {}

C11_FailedLeavesNoRow ==
    \A r \in Reqs :
        (Done(r) /\ req[r].res # "200") => "tx" \notin req[r].did

\* Why the claim has a redemption's lookup fail: no code with that token,
\* a code looked up at or after its expiresAt, or a used code.
LookupCase(r) ==
    IF req[r].kind # "scan" \/ req[r].at = NoTime THEN "none"
    ELSE IF req[r].seen = "absent" THEN "CodeNotFound"
    ELSE IF LookedUpAtOrAfter(r) THEN "CodeExpired"
    ELSE IF req[r].seen = "used" THEN "CodeAlreadyUsed"
    ELSE "none"

C13_Lifecycle ==
    [][\A i \in 1..Len(qrPayments) :
          /\ qrPayments[i].isUsed => qrPayments'[i].isUsed
          /\ (~qrPayments[i].isUsed /\ qrPayments'[i].isUsed)
             => now < qrPayments[i].expiresAt]_vars

\* The lookup of a redemption request returned a row.
FoundCode(r) ==
    /\ req[r].kind = "scan" /\ req[r].at # NoTime
    /\ req[r].res # "404 Invalid or expired QR code"

\* The effective amount as the claim resolves it: the override when one is
\* supplied, otherwise the code's fixed amount (0 when it has none).
EffectiveAmount(r) ==
    IF req[r].override # NoAmount THEN req[r].override
    ELSE IF qrPayments[req[r].code].amount = NoAmount THEN 0
    ELSE parseFloat(qrPayments[req[r].code].amount)

\* C14 (as claimed): a redemption whose effective amount is not positive
\* fails with InvalidAmount and writes nothing; any other redemption that
\* goes on to pay pays the effective amount.
C14_EffectiveAmount ==
    \A r \in Reqs :
        FoundCode(r) =>
           IF EffectiveAmount(r) <= 0
           THEN /\ Done(r) /\ req[r].res = "400 Invalid payment amount"
                /\ req[r].did = {}
           ELSE (req[r].pc # "done" \/ req[r].res \in {"200", "500 Internal server error"})
                => req[r].amount = EffectiveAmount(r)

\* A redemption request that has ended with success.
Redeemed(r) == req[r].kind = "scan" /\ Done(r) /\ req[r].res = "200"

\* The amounts of the successful redemptions of account u, as written to
\* a decimal(15,2) column.
RedeemedBy(u) ==
    LET f[n \in 0..NReq] ==
          IF n = 0 THEN 0
          ELSE f[n - 1] + (IF Redeemed(n) /\ req[n].sessUser = u
                           THEN toFixed2(req[n].amount) ELSE 0)
    IN f[NReq]

\* The rows of the log that record a wallet payment.
WalletPayments ==
    {i \in 1..Len(transactions) : transactions[i].transactionType = "wallet-payment"}

\* C15 (as claimed): once the requests have completed with no storage
\* failure, every successful redemption has marked its code used and has a
\* wallet-payment row from the redeemer to the code's merchant label for its
\* amount, there is exactly one such row per successful redemption, and each
\* has debited the redeemer's wallet by exactly its amount.
C15_Redemption ==
    (/\ Quiescent
     /\ faults = 0)
    => /\ \A r \in Reqs :
             Redeemed(r)
             => /\ qrPayments[req[r].code].isUsed
                /\ \E i \in WalletPayments :
                      /\ transactions[i].fromUserId = req[r].sessUser
                      /\ transactions[i].toAccountNumber
                           = qrPayments[req[r].code].merchantName
                      /\ transactions[i].amount = toFixed2(req[r].amount)
       /\ Cardinality(WalletPayments) = Cardinality({r \in Reqs : Redeemed(r)})
       /\ \A u \in Users :
             users[u].walletBalance
               = InitUsers[u].walletBalance + SumLog("walletCredit", u) - RedeemedBy(u)

\* Every request has been answered and the clock has run out: nothing is
\* left to happen.
RunEnded == (\A r \in Reqs : Done(r)) /\ now = MaxTime

\* C16 (as claimed): every committed transaction is eventually handed to
\* the risk scoring, and when a pattern triggers for it (here round_amount)
\* a pending FraudAlert for it is eventually persisted: by the end of a run
\* without storage failure every such row of the log has its alert.
C16_AlertPersisted ==
    (RunEnded /\ faults = 0)
    => \A i \in 1..Len(transactions) :
          isRoundAmount(transactions[i])
          => \E j \in 1..Len(fraudAlerts) :
                /\ fraudAlerts[j].transactionId = transactions[i].id
                /\ fraudAlerts[j].status = "pending"

\* The types of the patterns, in the order pushed.
TypesOf(patterns) == [i \in 1..Len(patterns) |-> patterns[i].type]

\* C17: for a non-empty list of triggered patterns the score is
\* min(100, average of their weights + min(30, 10 * number triggered)), so
\* it is above 0 and at most 100, and weights {75, 80} give 97.5; for an
\* empty list the score is 0 and no alert is created.
C17_RiskScore ==
    risk.pc = "scored" =>
       LET n == Len(risk.patterns)
           sum == TotalScore(risk.patterns)
           bonus == IF 10 * n < 30 THEN 10 * n ELSE 30
       IN IF n = 0
          THEN risk.score = 0 /\ fraudAlerts = <<>>
          ELSE /\ risk.score > 0 /\ risk.score <= 100 * ScoreUnit
               /\ IF sum + n * bonus <= 100 * n
                  THEN n * risk.score = (sum + n * bonus) * ScoreUnit
                  ELSE risk.score = 100 * ScoreUnit
               /\ TypesOf(risk.patterns) = <<"unusual_amount", "high_velocity">>
                  => 2 * risk.score = 195 * ScoreUnit

\* unusual_amount and high_velocity alone were triggered and scored 97.5.
C17_Witness ==
    /\ risk.pc = "scored"
    /\ TypesOf(risk.patterns) = <<"unusual_amount", "high_velocity">>
    /\ 2 * risk.score = 195 * ScoreUnit

\* The evaluation has returned its patterns.
Analyzed == risk.pc \in {"analyzed", "scored"}

\* The pattern of that type was triggered.
Triggered(type) == \E i \in 1..Len(risk.patterns) : risk.patterns[i].type = type

\* C18: unusual_amount is triggered iff the amount is above 10,000 or above
\* half of the balance of the account's row; time_pattern iff the local hour
\* of the transaction is 23 or one of 0..6; round_amount iff the amount is a
\* positive multiple of 1,000; each whatever the other checks say.
C18_TransactionPatterns ==
    Analyzed =>
       /\ Triggered("unusual_amount")
            <=> (\/ risk.transaction.amount > Dec(10000)
                 \/ 2 * risk.transaction.amount > risk.user.balance)
       /\ Triggered("time_pattern")
            <=> getHours(risk.transaction.createdAt) \in {23} \cup 0..6
       /\ Triggered("round_amount")
            <=> \E k \in 1..12 : risk.transaction.amount = Dec(1000 * k)

\* An amount of 1500.00, not round and not above 10,000, was found unusual
\* against a balance of 2000.00, at six in the morning.
C18_Witness ==
    /\ Analyzed
    /\ risk.transaction.amount = Dec(1500) /\ risk.user.balance = Dec(2000)
    /\ getHours(risk.transaction.createdAt) = 6
    /\ Triggered("unusual_amount") /\ Triggered("time_pattern")
    /\ ~Triggered("round_amount")

\* The rows of the table that are the acting account's, completed, and
\* less than that many minutes old at the evaluation.
CompletedWithin(minutes) ==
    {i \in 1..Len(risk.table) :
        /\ risk.user.id \in {risk.table[i].fromUserId, risk.table[i].toUserId}
        /\ risk.table[i].status = "completed"
        /\ risk.at - risk.table[i].createdAt < minutes}

C20_PinVerified ==
    \A r \in Reqs : req[r].did # {} => req[r].pinOk

\* Which destination check applies to the account number a transfer looked up.
DestinationCase(r) ==
    LET found == getUserByAccountNumber(req[r].to) IN
    IF found = {} THEN "absent"
    ELSE IF \A t \in found : ~users[t].isActive THEN "inactive"
    ELSE IF req[r].sessUser \in found THEN "same"
    ELSE "other"

\* A transfer that looked up its destination.
TransferTo(r) == req[r].kind = "transfer" /\ req[r].to # ""

AtCap(r) ==
    /\ req[r].kind = "generate" /\ req[r].pc = "handler"
    /\ Len(qrPayments) >= MaxCodes

Touches(q, u) ==
    /\ req[q].did \cap {"tx", "debit", "credit", "used"} # {}
    /\ req[q].sessUser = u \/ req[q].to = users[u].accountNumber

\* A withdrawal to the wallet that has succeeded, with no other request on
\* its account.
WithdrawnAlone(r) ==
    /\ req[r].kind = "withdraw" /\ Done(r) /\ req[r].res = "200"
    /\ \A q \in Reqs \ {r} : ~Touches(q, req[r].sessUser)

\* The rows of the log that name account u.
RowsOf(u) ==
    {i \in 1..Len(transactions) :
       transactions[i].fromUserId = u \/ transactions[i].toUserId = u}

\* C23: a successful withdrawal to the wallet of amount a, with no other
\* request on the account, leaves balance lowered by a and walletBalance
\* raised by a, leaves every account no request wrote to as it was, and
\* leaves exactly one row for the account in the log: a completed
\* withdrawal-to-wallet of amount a.
C23_WithdrawAlone ==
    \A r \in Reqs :
      WithdrawnAlone(r) =>
        LET u == req[r].sessUser
            a == toFixed2(req[r].amount)
        IN /\ a > 0 /\ a <= InitUsers[u].balance
           /\ users[u].balance = InitUsers[u].balance - a
           /\ users[u].walletBalance = InitUsers[u].walletBalance + a
           /\ users[u].balance + users[u].walletBalance
                = InitUsers[u].balance + InitUsers[u].walletBalance
           /\ \A v \in Users \ {u} :
                (\A q \in Reqs : ~Touches(q, v)) => users[v] = InitUsers[v]
           /\ Cardinality(RowsOf(u)) = 1
           /\ \A i \in RowsOf(u) :
                /\ transactions[i].transactionType = "withdrawal-to-wallet"
                /\ transactions[i].amount = a
                /\ transactions[i].status = "completed"

\* Account 12345678 has moved 2000.00 to its wallet while the other request
\* worked on another account.
C23_Witness ==
    \E r \in Reqs :
      /\ WithdrawnAlone(r) /\ req[r].sessUser = 1 /\ req[r].amount = Num(2000)
      /\ users[1].balance = Dec(3000) /\ users[1].walletBalance = Dec(2500)
      /\ \E q \in Reqs \ {r} : Touches(q, 2)

\* C24: the transaction log is append-only.  No step removes a row or
\* changes a field of a row that exists, and every row in the log has status
\* completed or failed.
C24_AppendOnly ==
    [][/\ Len(transactions') >= Len(transactions)
       /\ \A i \in 1..Len(transactions) : transactions'[i] = transactions[i]
       /\ \A i \in 1..Len(transactions') :
            transactions'[i].status \in {"completed", "failed"}]_vars

\* Two requests have each added a row to the log, and the second one has
\* gone on to write a balance.
C24_Witness ==
    /\ Len(transactions) = 2
    /\ \E r, q \in Reqs :
         /\ r # q /\ "tx" \in req[r].did /\ "tx" \in req[q].did
         /\ req[q].did \cap {"debit", "credit"} # {}

\* C25: the two counts of one evaluation come from one snapshot of the
\* account's history, so the number of transactions counted for the last 10
\* minutes never exceeds the number counted for the last 60 minutes, even
\* when transactions commit while the evaluation runs.
C25_OneSnapshot == Analyzed => risk.velocity <= risk.recent

\* C26: the fraud_alerts table changes in two ways only.  A row is added,
\* pending and unreviewed, by no request handler; or a review request of an
\* authenticated, active administrator ends with 200 and has set, in rows
\* that exist, status to reviewed, false_positive or confirmed_fraud, with
\* reviewedBy the administrator and reviewedAt the time of the write.  No
\* row is ever removed, and a request of a non-administrator or with another
\* status changes no row.
C26_AlertsChangedByReview ==
    [][fraudAlerts' # fraudAlerts =>
         \/ /\ Len(fraudAlerts') = Len(fraudAlerts) + 1
            /\ SubSeq(fraudAlerts', 1, Len(fraudAlerts)) = fraudAlerts
            /\ fraudAlerts'[Len(fraudAlerts')].status = "pending"
            /\ fraudAlerts'[Len(fraudAlerts')].reviewedBy = 0
            /\ req' = req
         \/ \E r \in Reqs :
              /\ req[r].kind = "review" /\ ~Done(r)
              /\ req'[r].pc = "done" /\ req'[r].res = "200"
              /\ users[req[r].sessUser].role = "admin"
              /\ users[req[r].sessUser].isActive
              /\ Len(fraudAlerts') = Len(fraudAlerts)
              /\ \A i \in 1..Len(fraudAlerts) :
                   \/ fraudAlerts'[i] = fraudAlerts[i]
                   \/ /\ fraudAlerts'[i].status
                           \in {"reviewed", "false_positive", "confirmed_fraud"}
                      /\ fraudAlerts'[i] =
                           [fraudAlerts[i] EXCEPT
                              !.status = fraudAlerts'[i].status,
                              !.reviewedBy = req[r].sessUser,
                              !.reviewedAt = now]]_vars

\* The administrator has marked alert 1 as confirmed fraud, and a customer's
\* review request was refused; both alerts are still in the table.
C26_Witness ==
    /\ Len(fraudAlerts) = 2
    /\ fraudAlerts[1].status = "confirmed_fraud" /\ fraudAlerts[1].reviewedBy = 2
    /\ fraudAlerts[2].status = "pending"
    /\ \E r \in Reqs :
         /\ req[r].kind = "review" /\ req[r].sessUser = 1
         /\ req[r].res = "403 Admin access required"

\* C30: an alert whose status has left pending never returns to it: in
\* every step, a row that is not pending stays in the table with status
\* reviewed, false_positive or confirmed_fraud.
C30_NeverBackToPending ==
    [][\A i \in 1..Len(fraudAlerts) :
         fraudAlerts[i].status # "pending" =>
           /\ i <= Len(fraudAlerts')
           /\ fraudAlerts'[i].status
                \in {"reviewed", "false_positive", "confirmed_fraud"}]_vars

\* Alert 1 was reviewed twice: marked reviewed at time 0 and false_positive
\* at time 1, and the row now carries the second review's status and time.
C30_Witness ==
    /\ Len(fraudAlerts) >= 1
    /\ fraudAlerts[1].status = "false_positive" /\ fraudAlerts[1].reviewedAt = 1
    /\ \E r, q \in Reqs :
         /\ req[r].kind = "review" /\ req[r].alert = 1 /\ req[r].res = "200"
         /\ req[r].status = "reviewed"
         /\ req[q].kind = "review" /\ req[q].alert = 1 /\ req[q].res = "200"
         /\ req[q].status = "false_positive"

\* The rows of table t, as a set.
RowSet(t) == {t[i] : i \in 1..Len(t)}

\* The rows with the ids that are in the table before the step and not after.
Removed == {row \in RowSet(qrPayments) :
              \A kept \in RowSet(qrPayments') : kept.id # row.id}

\* C27 as stated: a code row is removed only once its expiry plus a
\* retention window has passed (here a window of two ticks, 30 minutes; any
\* window longer than the clock's resolution gives the same result).
C27_RetainedForWindow ==
    [][\A row \in Removed : now >= row.expiresAt + 2]_vars

\* C27: a code row, redeemed or not, is never removed while now <= expiresAt;
\* a step that removes rows is a run of the reaper and no step of a request,
\* it removes rows with expiresAt < now only, and it leaves none of them.
C27_RemovedOnceExpired ==
    [][Removed # {} =>
         /\ \A row \in Removed : row.expiresAt < now
         /\ \A kept \in RowSet(qrPayments') : ~(kept.expiresAt < now)
         /\ req' = req]_vars

\* The code was redeemed, and the reaper removed its row one tick after its
\* expiry.
C27_Witness ==
    /\ qrPayments = <<>>
    /\ now = QrTtl + 1
    /\ \E r \in Reqs : req[r].kind = "scan" /\ "used" \in req[r].did

\* The amounts of all successful redemptions, as written to a decimal(15,2)
\* column.
TotalRedeemed ==
    LET f[n \in 0..NReq] ==
          IF n = 0 THEN 0
          ELSE f[n - 1] + (IF Redeemed(n) THEN toFixed2(req[n].amount) ELSE 0)
    IN f[NReq]

\* Redemptions leave every balance alone, and every wallet but those of the
\* accounts whose redemption request has written.
RedemptionFrame ==
    /\ \A u \in Users : users[u].balance = InitUsers[u].balance
    /\ \A u \in Users :
         (\A r \in Reqs : "debit" \in req[r].did => req[r].sessUser # u)
           => users[u].walletBalance = InitUsers[u].walletBalance

\* C28 (as claimed): a redemption changes only the redeemer's walletBalance,
\* not the issuer's row, and once the redemption requests have completed with
\* no storage failure the sum over all accounts of balance + walletBalance is
\* lower than before by exactly the amounts of the successful redemptions.
C28_OnlyRedeemersWallet ==
    /\ RedemptionFrame
    /\ (Quiescent /\ faults = 0)
         => TotalOf(users) = TotalOf(InitUsers) - TotalRedeemed

\* Request r takes the step that looks up its session.
LooksUpSession(r) == req[r].pc = "idle" /\ req'[r].pc # "idle"

\* Request r takes the step that reads its user.
ReadsUser(r) == req[r].pc = "getUser" /\ req'[r].pc # "getUser"

\* Request r is refused with that reply and has written nothing.
Refused401(r, res) ==
    /\ req'[r].pc = "done" /\ req'[r].res = res /\ req'[r].did = {}
    /\ UNCHANGED <<users, transactions, qrPayments, fraudAlerts, userSessions>>

\* A logout with that token has completed.
LoggedOut(token) ==
    \E q \in Reqs :
      /\ req[q].kind = "logout" /\ req[q].token = token
      /\ Done(q) /\ req[q].res = "200"

\* C29: at the step that looks up the session, a request whose token has no
\* session row, or only rows with expiresAt < now, or whose token was logged
\* out by a completed logout, is refused with 401; at the step that reads the
\* user, a request whose user is missing or inactive is refused with 401; a
\* refused request has written nothing and takes no further step.
C29_SessionGate ==
    [][\A r \in Reqs :
         /\ LooksUpSession(r) =>
              LET rows == {s \in userSessions : s.token = req'[r].token} IN
              ((\/ rows = {}
                \/ \A s \in rows : s.expiresAt < now
                \/ LoggedOut(req'[r].token))
                 => Refused401(r, "401 Invalid or expired token"))
         /\ ReadsUser(r) =>
              ((\/ req[r].sessUser \notin Users
                \/ ~users[req[r].sessUser].isActive)
                 => Refused401(r, "401 User not found or inactive"))
         /\ Done(r) => req'[r] = req[r]]_vars

\* Account 12345678 logged out, and a later request with the token of that
\* session was refused.
C29_Witness ==
    \E r, q \in Reqs :
      /\ r # q /\ req[q].kind = "logout" /\ req[q].token = "tok1"
      /\ Done(q) /\ req[q].res = "200"
      /\ req[r].token = "tok1" /\ Done(r)
      /\ req[r].res = "401 Invalid or expired token"

====
